---- MODULE Spec2Model ----
(***************************************************************************)
(* A model of main.py: the Brave search tool (search_brave) and the        *)
(* tool-calling loop (process_user_query).                                 *)
(*                                                                         *)
(* Text is a sequence of lexical tokens, so that JSON encoding and         *)
(* decoding are computed (json_dumps, json_loads) and "" (the empty        *)
(* sequence), "[]" and "No query found in arguments" are different texts.  *)
(* A decoded JSON value is a record [k, s, a]: k its kind, s the text of a *)
(* string or number, a the elements of an array or, for an object, its     *)
(* members [key, val] in insertion order (a Python dict).                  *)
(***************************************************************************)
EXTENDS Integers, Sequences, FiniteSets, TLC

\* ------------------------------------------------------------------ bounds
\* Model calls (ask_llm) in one run of process_user_query.
MaxTurns == 3
\* Tool-invocation-requests the model emits in one run, over all its replies.
MaxRequests == 2

\* ------------------------------------------------------- program constants
max_retries == 3
backoff_factor == 2

\* ------------------------------------------------------------------- text
P(c) == [t |-> "p", v |-> c]
S(s) == [t |-> "s", v |-> s]
N(s) == [t |-> "n", v |-> s]
NullTok == [t |-> "null", v |-> "null"]
Text(s) == << [t |-> "txt", v |-> s] >>

\* ------------------------------------------------------------ JSON values
JStr(s) == [k |-> "str", s |-> s, a |-> <<>>]
JNum(s) == [k |-> "num", s |-> s, a |-> <<>>]
JNull == [k |-> "null", s |-> "", a |-> <<>>]
JArr(a) == [k |-> "arr", s |-> "", a |-> a]
JObj(m) == [k |-> "obj", s |-> "", a |-> m]
Member(key, val) == [key |-> key, val |-> val]

\* dict.__setitem__: a key already present keeps its place and takes the new value.
SetMember(m, key, val) ==
  IF \E i \in 1..Len(m) : m[i].key = key
    THEN [i \in 1..Len(m) |-> IF m[i].key = key THEN Member(key, val) ELSE m[i]]
    ELSE Append(m, Member(key, val))

\* `key in d` for a dict d.
HasKey(obj, key) == \E i \in 1..Len(obj.a) : obj.a[i].key = key

\* d.get(key, default) for a dict d.
Get(obj, key, default) ==
  IF HasKey(obj, key)
    THEN obj.a[CHOOSE i \in 1..Len(obj.a) : obj.a[i].key = key].val
    ELSE default

\* Python truth value of a decoded JSON value (`not query`).
Truthy(v) ==
  CASE v.k = "str" -> v.s # ""
    [] v.k = "num" -> v.s # "0"
    [] v.k = "null" -> FALSE
    [] OTHER -> v.a # <<>>

\* --------------------------------------------------------------- json.loads
ParseFail == [ok |-> FALSE, v |-> JNull, next |-> 0]
ParseOk(v, next) == [ok |-> TRUE, v |-> v, next |-> next]
TokAt(ts, i) == IF i \in 1..Len(ts) THEN ts[i] ELSE [t |-> "eof", v |-> ""]

RECURSIVE ParseValue(_, _), ParseElems(_, _, _), ParseMembers(_, _, _)
ParseValue(ts, i) ==
  LET tok == TokAt(ts, i) IN
  CASE tok.t = "s" -> ParseOk(JStr(tok.v), i + 1)
    [] tok.t = "n" -> ParseOk(JNum(tok.v), i + 1)
    [] tok.t = "null" -> ParseOk(JNull, i + 1)
    [] tok = P("[") ->
         IF TokAt(ts, i + 1) = P("]") THEN ParseOk(JArr(<<>>), i + 2)
         ELSE ParseElems(ts, i + 1, <<>>)
    [] tok = P("{") ->
         IF TokAt(ts, i + 1) = P("}") THEN ParseOk(JObj(<<>>), i + 2)
         ELSE ParseMembers(ts, i + 1, <<>>)
    [] OTHER -> ParseFail

ParseElems(ts, i, acc) ==
  LET r == ParseValue(ts, i) IN
  IF ~r.ok THEN ParseFail
  ELSE IF TokAt(ts, r.next) = P(",") THEN ParseElems(ts, r.next + 1, Append(acc, r.v))
  ELSE IF TokAt(ts, r.next) = P("]") THEN ParseOk(JArr(Append(acc, r.v)), r.next + 1)
  ELSE ParseFail

ParseMembers(ts, i, acc) ==
  IF TokAt(ts, i).t # "s" \/ TokAt(ts, i + 1) # P(":") THEN ParseFail
  ELSE LET r == ParseValue(ts, i + 2) IN
       IF ~r.ok THEN ParseFail
       ELSE LET m == SetMember(acc, TokAt(ts, i).v, r.v) IN
            IF TokAt(ts, r.next) = P(",") THEN ParseMembers(ts, r.next + 1, m)
            ELSE IF TokAt(ts, r.next) = P("}") THEN ParseOk(JObj(m), r.next + 1)
            ELSE ParseFail

\* json.loads(text): ok = FALSE stands for json.JSONDecodeError.
json_loads(ts) ==
  LET r == ParseValue(ts, 1) IN
  IF r.ok /\ r.next = Len(ts) + 1 THEN [ok |-> TRUE, v |-> r.v]
  ELSE [ok |-> FALSE, v |-> JNull]

\* --------------------------------------------------------------- json.dumps
RECURSIVE DumpValue(_), DumpElems(_, _), DumpMembers(_, _)
DumpValue(v) ==
  CASE v.k = "str" -> << S(v.s) >>
    [] v.k = "num" -> << N(v.s) >>
    [] v.k = "null" -> << NullTok >>
    [] v.k = "arr" -> << P("[") >> \o DumpElems(v.a, 1) \o << P("]") >>
    [] OTHER -> << P("{") >> \o DumpMembers(v.a, 1) \o << P("}") >>

DumpElems(a, i) ==
  IF i > Len(a) THEN <<>>
  ELSE DumpValue(a[i]) \o (IF i < Len(a) THEN << P(",") >> ELSE <<>>) \o DumpElems(a, i + 1)

DumpMembers(m, i) ==
  IF i > Len(m) THEN <<>>
  ELSE << S(m[i].key), P(":") >> \o DumpValue(m[i].val)
       \o (IF i < Len(m) THEN << P(",") >> ELSE <<>>) \o DumpMembers(m, i + 1)

\* json.dumps(value, indent=2); white space is not a token.
json_dumps(v) == DumpValue(v)

\* ------------------------------------------------------------ environment
\* os.environ: the variable BRAVE_SEARCH_AI_API_KEY is unset, empty or a key.
Environs == { [set |-> FALSE, val |-> ""], [set |-> TRUE, val |-> ""],
              [set |-> TRUE, val |-> "key"] }

\* os.environ.get('BRAVE_SEARCH_AI_API_KEY', default)
os_environ_get(environ, default) == IF environ.set THEN environ.val ELSE default

\* The installed requests library: from 2.27 on ("new") response.json() raises
\* requests.exceptions.JSONDecodeError, a RequestException; before ("old") it
\* raises a plain ValueError.
RequestsVersions == {"old", "new"}

\* ------------------------------------------------------- HTTP responses
HitFull == JObj(<< Member("title", JStr("t")), Member("url", JStr("u")),
                   Member("description", JStr("d")),
                   Member("extra_snippets", JArr(<< JStr("e") >>)) >>)
BodyFull == json_dumps(JObj(<< Member("web", JObj(<< Member("results", JArr(<< HitFull >>)) >>)) >>))
\* one hit with every field missing
BodySparse == << P("{"), S("web"), P(":"), P("{"), S("results"), P(":"),
                 P("["), P("{"), P("}"), P("]"), P("}"), P("}") >>
\* valid JSON that is no object
BodyList == << P("["), P("]") >>
\* a body that is not JSON (an HTML error page)
BodyHtml == Text("<html>")

NoResponse == [neterr |-> FALSE, status |-> 0, body |-> <<>>]
\* What one requests.get can produce: a network error, or a status and a body.
Responses == { [neterr |-> TRUE, status |-> 0, body |-> <<>>],
               [neterr |-> FALSE, status |-> 500, body |-> BodyHtml],
               [neterr |-> FALSE, status |-> 200, body |-> BodyFull],
               [neterr |-> FALSE, status |-> 200, body |-> BodySparse],
               [neterr |-> FALSE, status |-> 200, body |-> BodyList],
               [neterr |-> FALSE, status |-> 200, body |-> BodyHtml] }

\* response.raise_for_status() raises HTTPError for 4xx and 5xx.
raise_for_status(resp) == resp.status >= 400 /\ resp.status < 600

\* The attempt raises a requests.exceptions.RequestException before any body is read.
TransportFails(resp) == resp.neterr \/ raise_for_status(resp)

\* ------------------------------------------------------------ search_brave
Event(e, n, resp) == [e |-> e, n |-> n, resp |-> resp]

\* SearchResult(title=item.get('title', ''), ...)
SearchResult(item) ==
  [title |-> Get(item, "title", JStr("")),
   url |-> Get(item, "url", JStr("")),
   description |-> Get(item, "description", JStr("")),
   extra_snippets |-> Get(item, "extra_snippets", JArr(<<>>))]

\* What `for item in v` iterates over; ok = FALSE is the TypeError of a value
\* that is not iterable. A dict yields its keys and a string its characters
\* (here: one string for a non-empty string, which fails item.get the same way).
IterItems(v) ==
  CASE v.k = "arr" -> [ok |-> TRUE, items |-> v.a]
    [] v.k = "obj" -> [ok |-> TRUE, items |-> [i \in 1..Len(v.a) |-> JStr(v.a[i].key)]]
    [] v.k = "str" -> [ok |-> TRUE, items |-> IF v.s = "" THEN <<>> ELSE << JStr(v.s) >>]
    [] OTHER -> [ok |-> FALSE, items |-> <<>>]

\* Lines 130-139: raised = TRUE is the AttributeError / TypeError of a body of
\* an unexpected shape.
parse_results(results_json) ==
  LET web == Get(results_json, "web", JObj(<<>>))
      it == IterItems(Get(web, "results", JArr(<<>>)))
  IN IF results_json.k # "obj" \/ web.k # "obj" THEN [raised |-> TRUE, result |-> <<>>]
     ELSE IF ~it.ok \/ \E i \in 1..Len(it.items) : it.items[i].k # "obj"
       THEN [raised |-> TRUE, result |-> <<>>]
     ELSE [raised |-> FALSE,
           result |-> [i \in 1..Len(it.items) |-> SearchResult(it.items[i])]]

\* Only None counts as no query.
QueryEmpty_onlyNone(query) == query.k = "null"

\* `if not query`
QueryEmpty(query) == ~Truthy(query)

\* Only an unset variable counts as a missing credential.
CredentialMissing_onlyUnset(environ) == ~environ.set

\* `if not headers['X-Subscription-Token']`
CredentialMissing(environ) == os_environ_get(environ, "") = ""

\* The delay is computed from the count before its increment.
Backoff_beforeIncrement(retries) == backoff_factor ^ (retries - 1)

\* time.sleep(backoff_factor ** retries)
Backoff(retries) == backoff_factor ^ retries

\* The state of one call: pc is "loop" (at the head of the while loop),
\* "returned" or "raised"; trace holds its HTTP GETs and sleeps, out its prints.
SearchState(pc, result, out) ==
  [pc |-> pc, retries |-> 0, result |-> result, trace |-> <<>>, out |-> out, exc |-> ""]

\* Lines 94-113.
search_enter(query, environ) ==
  IF QueryEmpty(query) THEN SearchState("returned", <<>>, <<>>)
  ELSE IF CredentialMissing(environ)
    THEN SearchState("returned", <<>>, << Text("Error: Missing Brave Search API key.") >>)
  ELSE SearchState("loop", <<>>, <<>>)

\* The except clause without its `else: return []`: the loop is left by its
\* condition.
on_request_exception_noReturn(st) ==
  LET r == st.retries + 1
      o == Append(st.out, Text("HTTP Request failed, retrying..."))
  IN IF r < max_retries
       THEN [st EXCEPT !.retries = r, !.out = o,
                       !.trace = Append(@, Event("sleep", backoff_factor ^ r, NoResponse))]
       ELSE [st EXCEPT !.retries = r, !.out = o]

\* The except clause without its `retries += 1`.
on_request_exception_noCount(st) ==
  LET r == st.retries
      o == Append(st.out, Text("HTTP Request failed, retrying..."))
  IN IF r < max_retries
       THEN [st EXCEPT !.retries = r, !.out = o,
                       !.trace = Append(@, Event("sleep", Backoff(r + 1), NoResponse))]
       ELSE [st EXCEPT !.retries = r, !.out = o, !.pc = "returned", !.result = <<>>]

\* The except clause sleeping before it looks at the count: it sleeps after
\* the last failure too.
on_request_exception_sleepAlways(st) ==
  LET r == st.retries + 1
      o == Append(st.out, Text("HTTP Request failed, retrying..."))
      slept == Append(st.trace, Event("sleep", Backoff(r), NoResponse))
  IN IF r < max_retries
       THEN [st EXCEPT !.retries = r, !.out = o, !.trace = slept]
       ELSE [st EXCEPT !.retries = r, !.out = o, !.trace = slept,
                       !.pc = "returned", !.result = <<>>]

\* Lines 122-128: the except clause.
on_request_exception(st) ==
  LET r == st.retries + 1
      o == Append(st.out, Text("HTTP Request failed, retrying..."))
  IN IF r < max_retries
       THEN [st EXCEPT !.retries = r, !.out = o,
                       !.trace = Append(@, Event("sleep", Backoff(r), NoResponse))]
       ELSE [st EXCEPT !.retries = r, !.out = o, !.pc = "returned", !.result = <<>>]

\* Lines 115-139: one pass of the while loop for the response the GET gives,
\* and, once the loop is left by break, the parsing of results_json.
search_iter(st, resp, ver) ==
  IF ~(st.retries < max_retries)
    THEN [st EXCEPT !.pc = "raised", !.exc = "UnboundLocalError"]
  ELSE
    LET got == [st EXCEPT !.trace = Append(@, Event("get", st.retries + 1, resp))]
        dec == json_loads(resp.body)
    IN IF TransportFails(resp) THEN on_request_exception(got)
       ELSE IF ~dec.ok
         THEN IF ver = "new" THEN on_request_exception(got)
              ELSE [got EXCEPT !.pc = "raised", !.exc = "ValueError"]
       ELSE LET p == parse_results(dec.v)
                o == Append(got.out, Text("Got results"))
            IN IF p.raised THEN [got EXCEPT !.pc = "raised", !.out = o, !.exc = "AttributeError"]
               ELSE [got EXCEPT !.pc = "returned", !.out = o, !.result = p.result]

\* search_brave(query) run to its end: the final states of the call, one for
\* every way its GETs can be answered.
RECURSIVE search_loop(_, _)
search_loop(st, ver) ==
  IF st.pc # "loop" THEN {st}
  ELSE UNION { search_loop(search_iter(st, resp, ver), ver) : resp \in Responses }

search_brave(query, environ, ver) == search_loop(search_enter(query, environ), ver)

\* ------------------------------------------------------------ tool calls
\* The last field under the name the data model gives it.
asdict_camelCase(x) ==
  JObj(<< Member("title", x.title), Member("url", x.url),
          Member("description", x.description),
          Member("extraSnippets", x.extra_snippets) >>)

\* dataclasses.asdict(x) for a SearchResult x: the fields in declaration order.
asdict(x) ==
  JObj(<< Member("title", x.title), Member("url", x.url),
          Member("description", x.description),
          Member("extra_snippets", x.extra_snippets) >>)

\* json.dumps([dataclasses.asdict(x) for x in search_result], indent=2)
SerializeResults(search_result) ==
  json_dumps(JArr([i \in 1..Len(search_result) |-> asdict(search_result[i])]))

\* `'query' in args`: ok = FALSE is the TypeError of a value that is no
\* container. For a string it is a substring test, which for the strings
\* drawn here (none longer than "query") is equality.
py_in(key, args) ==
  CASE args.k = "obj" -> [ok |-> TRUE, v |-> HasKey(args, key)]
    [] args.k = "arr" -> [ok |-> TRUE, v |-> \E i \in 1..Len(args.a) : args.a[i] = JStr(key)]
    [] args.k = "str" -> [ok |-> TRUE, v |-> args.s = key]
    [] OTHER -> [ok |-> FALSE, v |-> FALSE]

\* `args['query']`: ok = FALSE is the TypeError of indexing a list or a string
\* with a string.
py_getitem(args, key) ==
  IF args.k = "obj" /\ HasKey(args, key) THEN [ok |-> TRUE, v |-> Get(args, key, JNull)]
  ELSE [ok |-> FALSE, v |-> JNull]

\* The tools the loop executes itself.
IsSearchTool(name) == name = "search_brave"

Decoded(raised, exc, search, q, content) ==
  [raised |-> raised, exc |-> exc, search |-> search, query |-> q, content |-> content]

\* A missing `query` is read as the empty query, args.get('query', ''), and
\* searched for.
decode_tool_call_defaultQuery(function_call) ==
  LET dec == json_loads(function_call.arguments) IN
  IF ~dec.ok THEN Decoded(TRUE, "JSONDecodeError", FALSE, JNull, <<>>)
  ELSE IF ~IsSearchTool(function_call.name) THEN Decoded(FALSE, "", FALSE, JNull, <<>>)
  ELSE IF dec.v.k # "obj" THEN Decoded(TRUE, "TypeError", FALSE, JNull, <<>>)
  ELSE Decoded(FALSE, "", TRUE, Get(dec.v, "query", JStr("")), <<>>)

\* Lines 216-223 up to the call of search_brave: what the request makes the
\* loop do. raised: an exception escapes; search: search_brave(query) is
\* called; otherwise content is the tool-result's content.
decode_tool_call(function_call) ==
  LET dec == json_loads(function_call.arguments)
      args == dec.v
      has == py_in("query", args)
      q == py_getitem(args, "query")
  IN IF ~dec.ok THEN Decoded(TRUE, "JSONDecodeError", FALSE, JNull, <<>>)
     ELSE IF ~IsSearchTool(function_call.name) THEN Decoded(FALSE, "", FALSE, JNull, <<>>)
     ELSE IF ~has.ok THEN Decoded(TRUE, "TypeError", FALSE, JNull, <<>>)
     ELSE IF ~has.v
       THEN Decoded(FALSE, "", FALSE, JNull, Text("No query found in arguments"))
     ELSE IF ~q.ok THEN Decoded(TRUE, "TypeError", FALSE, JNull, <<>>)
     ELSE Decoded(FALSE, "", TRUE, q.v, <<>>)

\* The final states of the search the request leads to, if it leads to one.
SearchRuns(d, environ, ver) ==
  IF d.search THEN search_brave(d.query, environ, ver)
  ELSE { SearchState("idle", <<>>, <<>>) }

\* Lines 220-221: the tool-result's content once the search has returned.
ToolContent(d, run) == IF d.search THEN SerializeResults(run.result) ELSE d.content

\* ----------------------------------------------------------------- messages
first_llm_system_prompt == Text("You are a language model. ...")

Message(role, content, tool_calls, tool_call_id) ==
  [role |-> role, content |-> content, tool_calls |-> tool_calls,
   tool_call_id |-> tool_call_id]

\* The tool-result carries no tool_call_id.
ToolResult_noId(function_call, content) == Message("tool", content, <<>>, 0)

\* {"role": "tool", "tool_call_id": function_call.id, "content": content}
ToolResult(function_call, content) == Message("tool", content, <<>>, function_call.id)

\* The system prompt is left out.
SeedHistory_noSystem(q) == << Message("user", q, <<>>, 0) >>

\* Lines 206-208.
SeedHistory(q) ==
  << Message("system", first_llm_system_prompt, <<>>, 0), Message("user", q, <<>>, 0) >>

\* A reply without free text is taken for one that asks for tools.
HasToolCalls_noContent(message) == message.tool_calls # <<>> \/ message.content = <<>>

\* Only a reply with a single request is taken for one that asks for tools.
HasToolCalls_single(message) == Len(message.tool_calls) = 1

\* `if assistant_message.tool_calls`: None and [] are both false.
HasToolCalls(message) == message.tool_calls # <<>>

\* The two registries merged into one.
brave_search_tools_withUrlGrabber == {"search_brave", "get_url_content"}

\* brave_search_tools: the names the registry advertises.
brave_search_tools == {"search_brave"}

\* ------------------------------------------------------------------ inputs
\* What the user types.
UserQueries == { Text("what is x"), <<>> }
\* The free text of a reply; <<>> is None or "".
Contents == { <<>>, Text("42") }
\* What search_brave is called with when it is called on its own.
Queries == { JStr(""), JStr("x"), JStr("y"), JNull }

ArgsQueryX == << P("{"), S("query"), P(":"), S("x"), P("}") >>
ArgsQueryEmpty == << P("{"), S("query"), P(":"), S(""), P("}") >>
ArgsNoQuery == << P("{"), P("}") >>
ArgsUrl == << P("{"), S("url"), P(":"), S("u"), P("}") >>
\* cut off by the token limit: not JSON
ArgsTruncated == << P("{"), S("query"), P(":") >>
ArgsUrlTruncated == << P("{"), S("url"), P(":") >>
ArgsNull == << NullTok >>

\* The tool-invocation-requests a reply is built from: a tool name and an
\* argument blob.
RequestKinds ==
  { [name |-> "search_brave", arguments |-> ArgsQueryX],
    [name |-> "search_brave", arguments |-> ArgsQueryEmpty],
    [name |-> "search_brave", arguments |-> ArgsNoQuery],
    [name |-> "search_brave", arguments |-> ArgsUrl],
    [name |-> "search_brave", arguments |-> ArgsTruncated],
    [name |-> "search_brave", arguments |-> ArgsNull],
    [name |-> "get_url_content", arguments |-> ArgsUrl],
    [name |-> "get_url_content", arguments |-> ArgsUrlTruncated] }

\* A reply of the model: n requests whose ids are fresh (first, first + 1, ...).
Reply(content, kinds, first) ==
  Message("assistant", content,
          [i \in 1..Len(kinds) |->
             [id |-> first + i - 1, name |-> kinds[i].name,
              arguments |-> kinds[i].arguments]],
          0)

\* --------------------------------------------------------- get_url_content
\* URLContent: a field holds a decoded JSON value; JNull is None.
URLContent(title, text, error) == [title |-> title, text |-> text, error |-> error]
NoContent == URLContent(JNull, JNull, JNull)

\* The argument of get_url_content.
Urls == { "https://a.example", "https://b.example" }

BodyPage == << P("{"), S("title"), P(":"), S("T"), P(","), S("text"), P(":"), S("X"),
               P("}") >>
\* the field text is missing
BodyNoText == << P("{"), S("title"), P(":"), S("T"), P("}") >>
\* a field URLContent does not have
BodyExtraField == << P("{"), S("title"), P(":"), S("T"), P(","), S("text"), P(":"),
                     S("X"), P(","), S("lang"), P(":"), S("en"), P("}") >>
\* the extraction service reports a failure next to what it extracted
BodyWithError == << P("{"), S("title"), P(":"), S("T"), P(","), S("text"), P(":"),
                    S("X"), P(","), S("error"), P(":"), S("truncated"), P("}") >>

\* What the requests.post can produce: a network error, or a status and a body.
ContentResponses ==
  { [neterr |-> TRUE, status |-> 0, body |-> <<>>] }
  \cup { [neterr |-> FALSE, status |-> 200, body |-> b] :
           b \in {BodyPage, BodyNoText, BodyExtraField, BodyWithError, BodyList, BodyHtml} }
  \cup { [neterr |-> FALSE, status |-> st, body |-> b] :
           st \in {201, 404, 500}, b \in {BodyPage, BodyHtml} }

\* Every 2xx status is taken for a success.
StatusIs200_any2xx(resp) == resp.status >= 200 /\ resp.status < 300

\* `response.status_code != 200`, negated.
StatusIs200(resp) == resp.status = 200

\* str(e) of the ValueError response.json() raises.
json_error_message == "Expecting value: line 1 column 1 (char 0)"

\* URLContent(**content): ok = FALSE is the TypeError of a content that is no
\* mapping, lacks title or text, or has a key that is no field.
construct_URLContent(content) ==
  IF content.k # "obj" THEN [ok |-> FALSE, v |-> NoContent]
  ELSE IF \E i \in 1..Len(content.a) : content.a[i].key \notin {"title", "text", "error"}
    THEN [ok |-> FALSE, v |-> NoContent]
  ELSE IF ~HasKey(content, "title") \/ ~HasKey(content, "text")
    THEN [ok |-> FALSE, v |-> NoContent]
  ELSE [ok |-> TRUE,
        v |-> URLContent(Get(content, "title", JNull), Get(content, "text", JNull),
                         Get(content, "error", JNull))]

\* The state of one call: pc is "idle", "returned" or "raised"; posts holds
\* the JSON bodies it has posted and resp what the last was answered.
ContentState(pc, result, e, posts, resp) ==
  [pc |-> pc, result |-> result, exc |-> e, posts |-> posts, resp |-> resp]

\* Lines 18-34: get_url_content(url) when its POST is answered resp.
get_url_content(url, resp) ==
  LET posts == << [url |-> url, is_blog |-> TRUE] >>
      dec == json_loads(resp.body)
      made == construct_URLContent(dec.v)
  IN IF resp.neterr THEN ContentState("raised", NoContent, "ConnectionError", posts, resp)
     ELSE IF ~StatusIs200(resp)
       THEN ContentState("returned",
                         URLContent(JStr(""), JStr(""),
                                    JStr("Error: " \o ToString(resp.status))),
                         "", posts, resp)
     ELSE IF ~dec.ok
       THEN ContentState("returned",
                         URLContent(JStr(""), JStr(""),
                                    JStr("Error parsing response: " \o json_error_message)),
                         "", posts, resp)
     ELSE IF ~made.ok THEN ContentState("raised", NoContent, "TypeError", posts, resp)
     ELSE ContentState("returned", made.v, "", posts, resp)

\* ------------------------------------------------------------------- state
VARIABLES
  environ,            \* os.environ, as far as BRAVE_SEARCH_AI_API_KEY goes
  requests_version,   \* the requests library installed
  pc,                 \* process_user_query: "idle", "awaiting_model",
                      \* "executing_tools", "done" (returned) or "error" (raised)
  query,              \* its argument
  history,            \* the conversation
  assistant_message,  \* the latest reply
  idx,                \* the place of function_call in assistant_message.tool_calls
  returned,           \* the value returned
  exc,                \* the exception that escaped
  ask_log,            \* the arguments of every ask_llm call so far
  search_log,         \* every search_brave call of the loop: query and final state
  echoed,             \* what line 214 printed
  next_id,            \* the id the model gives its next request
  sb_query,           \* search_brave called on its own: its argument
  sb,                 \* and the state of that call
  gc_url,             \* get_url_content called on its own: its argument
  gc,                 \* and the state of that call
  other               \* a second invocation of process_user_query: its frame
                      \* while the first one runs

loop_vars == << pc, query, history, assistant_message, idx, returned, exc, ask_log,
                search_log, echoed, next_id >>
search_vars == << sb_query, sb >>
aux_vars == << gc_url, gc, other >>
vars == << environ, requests_version, loop_vars, search_vars, aux_vars >>

NoMessage == Message("none", <<>>, <<>>, 0)

\* The locals of one invocation of process_user_query, and what it did.
Frame(p, q, h, m, i, r, e, asks, searches, echo) ==
  [pc |-> p, query |-> q, history |-> h, assistant_message |-> m, idx |-> i,
   returned |-> r, exc |-> e, ask_log |-> asks, search_log |-> searches, echoed |-> echo]
NoFrame == Frame("none", <<>>, <<>>, NoMessage, 0, <<>>, "", <<>>, <<>>, <<>>)
NoUrl == ""

\* The process before anything runs.
InitCommon ==
  /\ environ \in Environs
  /\ requests_version \in RequestsVersions
  /\ history = <<>>
  /\ assistant_message = NoMessage
  /\ idx = 0
  /\ returned = <<>>
  /\ exc = ""
  /\ ask_log = <<>>
  /\ search_log = <<>>
  /\ echoed = <<>>
  /\ next_id = 1
  /\ sb = SearchState("idle", <<>>, <<>>)
  /\ gc = ContentState("idle", NoContent, "", <<>>, NoResponse)

\* ------------------------------------------------------ process_user_query
\* process_user_query(query) is called.
Init ==
  /\ InitCommon
  /\ pc = "start"
  /\ query \in UserQueries
  /\ sb_query = JNull
  /\ gc_url = NoUrl
  /\ other = NoFrame

\* The conversation is one list all invocations append to.
Seed_sharedHistory ==
  /\ pc = "start"
  /\ history' = other.history \o SeedHistory(query)
  /\ pc' = "awaiting_model"
  /\ UNCHANGED << environ, requests_version, query, assistant_message, idx, returned,
                  exc, ask_log, search_log, echoed, next_id, search_vars, aux_vars >>

\* Lines 206-208: the conversation is seeded.
Seed ==
  /\ pc = "start"
  /\ history' = SeedHistory(query)
  /\ pc' = "awaiting_model"
  /\ UNCHANGED << environ, requests_version, query, assistant_message, idx, returned,
                  exc, ask_log, search_log, echoed, next_id, search_vars, aux_vars >>

\* Lines 209-214 and 225-226: one model call and what the reply decides.
AskLLM ==
  /\ pc = "awaiting_model"
  /\ Len(ask_log) < MaxTurns
  /\ \E content \in Contents, n \in 0..(MaxRequests - (next_id - 1)) :
       \E kinds \in [1..n -> RequestKinds] :
         LET reply == Reply(content, kinds, next_id) IN
         /\ ask_log' = Append(ask_log, [messages |-> history, tools |-> brave_search_tools])
         /\ assistant_message' = reply
         /\ history' = Append(history, reply)
         /\ next_id' = next_id + n
         /\ IF HasToolCalls(reply)
              THEN /\ echoed' = IF content # <<>> THEN Append(echoed, content) ELSE echoed
                   /\ idx' = 1
                   /\ pc' = "executing_tools"
                   /\ returned' = returned
              ELSE /\ returned' = content
                   /\ pc' = "done"
                   /\ UNCHANGED << echoed, idx >>
  /\ UNCHANGED << environ, requests_version, query, exc, search_log, search_vars,
                  aux_vars >>

\* Lines 215-224: the body of the for loop for the request at idx.
ExecuteToolCall ==
  /\ pc = "executing_tools"
  /\ LET function_call == assistant_message.tool_calls[idx]
         d == decode_tool_call(function_call)
     IN \E run \in SearchRuns(d, environ, requests_version) :
          LET raised == d.raised \/ (d.search /\ run.pc = "raised") IN
          /\ search_log' = IF d.search
                             THEN Append(search_log,
                                         [turn |-> Len(ask_log), id |-> function_call.id,
                                          query |-> d.query, raised |-> run.pc = "raised",
                                          result |-> run.result])
                             ELSE search_log
          /\ IF raised
               THEN /\ pc' = "error"
                    /\ exc' = IF d.raised THEN d.exc ELSE run.exc
                    /\ UNCHANGED << history, idx >>
               ELSE /\ history' = Append(history, ToolResult(function_call, ToolContent(d, run)))
                    /\ exc' = exc
                    /\ IF idx < Len(assistant_message.tool_calls)
                         THEN idx' = idx + 1 /\ pc' = pc
                         ELSE idx' = 0 /\ pc' = "awaiting_model"
  /\ UNCHANGED << environ, requests_version, query, assistant_message, returned,
                  ask_log, echoed, next_id, search_vars, aux_vars >>

Next == Seed \/ AskLLM \/ ExecuteToolCall

Spec == Init /\ [][Next]_vars

\* ------------------------------------------------ search_brave on its own
\* search_brave(sb_query) is about to be called.
InitSearch ==
  /\ InitCommon
  /\ pc = "idle"
  /\ query = <<>>
  /\ sb_query \in Queries
  /\ gc_url = NoUrl
  /\ other = NoFrame

\* Lines 94-113.
SearchEnter ==
  /\ sb.pc = "idle"
  /\ sb' = search_enter(sb_query, environ)
  /\ UNCHANGED << environ, requests_version, loop_vars, sb_query, aux_vars >>

\* Lines 115-139: one pass of the while loop, for any response to its GET.
SearchAttempt ==
  /\ sb.pc = "loop"
  /\ \E resp \in Responses : sb' = search_iter(sb, resp, requests_version)
  /\ UNCHANGED << environ, requests_version, loop_vars, sb_query, aux_vars >>

NextSearch == SearchEnter \/ SearchAttempt

SpecSearch == InitSearch /\ [][NextSearch]_vars

\* --------------------------------------------- get_url_content on its own
\* get_url_content(gc_url) is about to be called.
InitContent ==
  /\ InitCommon
  /\ pc = "idle"
  /\ query = <<>>
  /\ sb_query = JNull
  /\ gc_url \in Urls
  /\ other = NoFrame

\* Lines 18-34: the call, for any answer to its POST.
GetUrlContent ==
  /\ gc.pc = "idle"
  /\ \E resp \in ContentResponses : gc' = get_url_content(gc_url, resp)
  /\ UNCHANGED << environ, requests_version, loop_vars, search_vars, gc_url, other >>

NextContent == GetUrlContent

SpecContent == InitContent /\ [][NextContent]_vars

\* ------------------------------------- two invocations of process_user_query
\* The frame of the invocation that is running.
Running == Frame(pc, query, history, assistant_message, idx, returned, exc, ask_log,
                 search_log, echoed)

\* process_user_query is called twice, with different queries; the second
\* invocation waits at its first statement (Switch makes it the first to
\* run). No credential is set: the searches of both return at once.
InitTwo ==
  /\ InitCommon
  /\ ~environ.set
  /\ requests_version = "new"
  /\ pc = "start"
  /\ query = Text("what is x")
  /\ sb_query = JNull
  /\ gc_url = NoUrl
  /\ other = Frame("start", <<>>, <<>>, NoMessage, 0, <<>>, "", <<>>, <<>>, <<>>)

\* The running invocation is suspended between two statements (or has ended)
\* and the other one, which has not ended, goes on: each keeps its locals.
\* The ids the model gives to requests are fresh across both.
Switch ==
  /\ other.pc \in {"start", "awaiting_model", "executing_tools"}
  /\ pc' = other.pc
  /\ query' = other.query
  /\ history' = other.history
  /\ assistant_message' = other.assistant_message
  /\ idx' = other.idx
  /\ returned' = other.returned
  /\ exc' = other.exc
  /\ ask_log' = other.ask_log
  /\ search_log' = other.search_log
  /\ echoed' = other.echoed
  /\ other' = Running
  /\ UNCHANGED << environ, requests_version, next_id, search_vars, gc_url, gc >>

\* The model is called MaxTurns times at most in the two invocations together.
NextTwo ==
  \/ Seed
  \/ (AskLLM /\ Len(ask_log) + Len(other.ask_log) < MaxTurns)
  \/ ExecuteToolCall
  \/ Switch

SpecTwo == InitTwo /\ [][NextTwo]_vars

\* ------------------------------------------------------ runs that make progress
\* Either program is started: process_user_query, where no credential is set
\* (its searches return at once; the ones that reach the network are the runs
\* of search_brave on its own), or search_brave on its own.
InitLive ==
  \/ Init /\ CredentialMissing(environ) /\ requests_version = "new"
  \/ InitSearch

SearchStep == pc = "idle" /\ NextSearch

NextLive == Next \/ SearchStep

\* The program is sequential and, every model call and HTTP call returning,
\* never stops between two statements: a step that can be taken is taken.
\* For ExecuteToolCall the weak fairness is written with its enabling
\* condition: the for loop has a request at idx whenever pc is
\* "executing_tools", and executing it changes idx, pc or history.
SpecLive ==
  /\ InitLive
  /\ [][NextLive]_vars
  /\ WF_vars(Seed)
  /\ WF_vars(AskLLM)
  /\ ([]<>(pc # "executing_tools") \/ []<><<ExecuteToolCall>>_vars)
  /\ WF_vars(SearchStep)

\* ===================================================================== claims
\* The requests of the conversation: (j, i) is the i-th request of the
\* assistant message at place j of the messages h.
RequestsOf(h) ==
  { << j, i >> \in (1..Len(h)) \X (1..MaxRequests + 1) :
      h[j].role = "assistant" /\ i <= Len(h[j].tool_calls) }
\* The place of the latest assistant message.
LastReplyAt == CHOOSE j \in 1..Len(history) :
                 history[j].role = "assistant"
                 /\ \A l \in (j + 1)..Len(history) : history[l].role # "assistant"
Replied == assistant_message # NoMessage
SeedExpected ==
  << [role |-> "system", content |-> first_llm_system_prompt, tool_calls |-> <<>>,
      tool_call_id |-> 0],
     [role |-> "user", content |-> query, tool_calls |-> <<>>, tool_call_id |-> 0] >>

\* C1: a reply without tool-invocation-requests ends the loop at that turn:
\* the run has returned exactly that reply's content, the reply is the last
\* message of the conversation and no tool was executed in that turn; when it
\* is the first reply, the model was called exactly once, with the two seed
\* messages (system prompt, then the user message holding the raw query).
C1_NoToolCallsReturnsContent ==
  (Replied /\ assistant_message.tool_calls = <<>>) =>
    /\ pc = "done"
    /\ returned = assistant_message.content
    /\ history[Len(history)] = assistant_message
    /\ \A k \in 1..Len(search_log) : search_log[k].turn # Len(ask_log)
    /\ Len(history) = 3 =>
         /\ Len(ask_log) = 1
         /\ ask_log[1].messages = SeedExpected

\* A run that returned "42" on its first turn.
C1_Witness ==
  /\ pc = "done"
  /\ Len(ask_log) = 1
  /\ returned = Text("42")
  /\ assistant_message.tool_calls = <<>>

\* The model first asked for search_brave, once, with an object holding a
\* `query` key, and answered its second call without tool requests.
C2_Scenario ==
  /\ Len(ask_log) = 2
  /\ Len(history) > Len(ask_log[2].messages)
  /\ history[Len(ask_log[2].messages) + 1].tool_calls = <<>>
  /\ Len(history[3].tool_calls) = 1
  /\ history[3].tool_calls[1].name = "search_brave"
  /\ history[3].tool_calls[1].arguments \in {ArgsQueryX, ArgsQueryEmpty}

\* The text is a JSON array with one object per result, each with exactly the
\* fields title, url, description, extra_snippets holding the result's values.
IsSerializationOf(text, results) ==
  LET dec == json_loads(text) IN
  /\ dec.ok
  /\ dec.v.k = "arr"
  /\ Len(dec.v.a) = Len(results)
  /\ \A i \in 1..Len(results) :
       /\ dec.v.a[i].k = "obj"
       /\ [n \in 1..Len(dec.v.a[i].a) |-> dec.v.a[i].a[n].key]
            = << "title", "url", "description", "extra_snippets" >>
       /\ dec.v.a[i].a[1].val = results[i].title
       /\ dec.v.a[i].a[2].val = results[i].url
       /\ dec.v.a[i].a[3].val = results[i].description
       /\ dec.v.a[i].a[4].val = results[i].extra_snippets

\* C2: in that scenario search_brave was executed exactly once, with the
\* query of the request; the conversation holds exactly one tool-result
\* message, tagged with the request's id, whose content is the JSON array
\* serialization of what search_brave returned; and the run returned the
\* second reply's content.
C2_SearchOnceThenAnswer ==
  C2_Scenario =>
    /\ Len(search_log) = 1
    /\ search_log[1].query
         = (IF history[3].tool_calls[1].arguments = ArgsQueryX THEN JStr("x") ELSE JStr(""))
    /\ ~search_log[1].raised
    /\ Len(history) = 5
    /\ { j \in 1..Len(history) : history[j].role = "tool" } = {4}
    /\ history[4].tool_call_id = history[3].tool_calls[1].id
    /\ IsSerializationOf(history[4].content, search_log[1].result)
    /\ pc = "done"
    /\ returned = history[5].content

\* The scenario, with a search that found a hit.
C2_Witness ==
  /\ C2_Scenario
  /\ pc = "done"
  /\ Len(search_log) = 1
  /\ Len(search_log[1].result) = 1
  /\ search_log[1].result[1].title = JStr("t")

\* The requests of the message at place j of h are answered in full: the n
\* messages after it are tool-results, the i-th tagged with the i-th id, and
\* what follows them is no tool-result.
AnsweredInOrder(h, j) ==
  LET n == Len(h[j].tool_calls) IN
  /\ j + n <= Len(h)
  /\ \A i \in 1..n : h[j + i].role = "tool" /\ h[j + i].tool_call_id = h[j].tool_calls[i].id
  /\ j + n < Len(h) => h[j + n + 1].role # "tool"

\* C3: the requests of a reply are processed one after the other in the order
\* received: while the request at idx is being processed the messages after
\* the reply are exactly the results of the idx - 1 requests before it, in
\* order; and at every model call every earlier reply is answered in full and
\* each of its requests has exactly one tool-result with its id.
C3_ResultsInRequestOrder ==
  /\ pc = "executing_tools" =>
       /\ Len(history) = LastReplyAt + idx - 1
       /\ \A i \in 1..(idx - 1) :
            /\ history[LastReplyAt + i].role = "tool"
            /\ history[LastReplyAt + i].tool_call_id = assistant_message.tool_calls[i].id
  /\ pc = "awaiting_model" =>
       \A p \in RequestsOf(history) : AnsweredInOrder(history, p[1])
  /\ \A c \in 1..Len(ask_log) :
       LET h == ask_log[c].messages IN
       \A p \in RequestsOf(h) :
         /\ AnsweredInOrder(h, p[1])
         /\ Cardinality({ l \in 1..Len(h) :
                            h[l].role = "tool"
                            /\ h[l].tool_call_id = h[p[1]].tool_calls[p[2]].id }) = 1

\* The model is called again after a reply with two requests was answered.
C3_Witness ==
  /\ Len(ask_log) = 2
  /\ Len(ask_log[2].messages) = 5
  /\ Len(ask_log[2].messages[3].tool_calls) = 2

\* A request that names search_brave with an object that has no `query` key.
NamesSearchWithoutQuery(h, p) ==
  /\ h[p[1]].tool_calls[p[2]].name = "search_brave"
  /\ h[p[1]].tool_calls[p[2]].arguments \in {ArgsNoQuery, ArgsUrl}

\* The loop is past the request p: it has not aborted at it and is not about
\* to process it again.
PastRequest(p) ==
  (p[1] = LastReplyAt /\ pc \in {"executing_tools", "error"}) => idx > p[2]

\* C4: for every request that names search_brave and whose decoded arguments
\* lack the `query` key, search_brave is not executed; the loop does not abort
\* at it; and once it is processed its tool-result, tagged with its id, holds
\* exactly "No query found in arguments" and the loop has moved on to the
\* next request or the next model call.
C4_MissingQueryDiagnostic ==
  \A p \in RequestsOf(history) :
    NamesSearchWithoutQuery(history, p) =>
      /\ \A k \in 1..Len(search_log) : search_log[k].id # history[p[1]].tool_calls[p[2]].id
      /\ ~(pc = "error" /\ p[1] = LastReplyAt /\ idx = p[2])
      /\ p[1] + p[2] <= Len(history) =>
           /\ history[p[1] + p[2]].role = "tool"
           /\ history[p[1] + p[2]].tool_call_id = history[p[1]].tool_calls[p[2]].id
           /\ history[p[1] + p[2]].content = Text("No query found in arguments")
           /\ PastRequest(p)

\* The model is called again after such a request got its diagnostic.
C4_Witness ==
  /\ Len(ask_log) = 2
  /\ NamesSearchWithoutQuery(history, << 3, 1 >>)
  /\ history[4].content = Text("No query found in arguments")

\* C5: for every request that names a tool other than search_brave, no tool
\* is executed; the loop does not abort at it; and once it is processed its
\* tool-result, tagged with its id, holds the empty string and the loop has
\* moved on.
C5_OtherToolEmptyResult ==
  \A p \in RequestsOf(history) :
    history[p[1]].tool_calls[p[2]].name # "search_brave" =>
      /\ \A k \in 1..Len(search_log) : search_log[k].id # history[p[1]].tool_calls[p[2]].id
      /\ ~(pc = "error" /\ p[1] = LastReplyAt /\ idx = p[2])
      /\ p[1] + p[2] <= Len(history) =>
           /\ history[p[1] + p[2]].role = "tool"
           /\ history[p[1] + p[2]].tool_call_id = history[p[1]].tool_calls[p[2]].id
           /\ history[p[1] + p[2]].content = <<>>
           /\ PastRequest(p)

\* C6: no exception escapes process_user_query.
C6_NoExceptionEscapes == pc # "error"

\* ------------------------------------------------- claims on search_brave
Gets == SelectSeq(sb.trace, LAMBDA e : e.e = "get")
Sleeps == SelectSeq(sb.trace, LAMBDA e : e.e = "sleep")
\* The GET ended in a network error or an error status.
RequestFailed(e) == e.resp.neterr \/ e.resp.status = 500
SearchCalled == sb.pc # "idle"

\* C7: for the empty query string search_brave returns the empty sequence and
\* issues no HTTP request and no sleep, whatever the credential.
C7_EmptyQueryNoNetwork ==
  (SearchCalled /\ sb_query = JStr("")) =>
    /\ sb.pc = "returned"
    /\ sb.result = <<>>
    /\ sb.trace = <<>>

\* The empty query returned with a credential present.
C7_Witness ==
  /\ sb.pc = "returned"
  /\ sb_query = JStr("")
  /\ environ = [set |-> TRUE, val |-> "key"]

\* C8: for a non-empty query, with the credential variable unset or empty,
\* search_brave prints the error, returns the empty sequence without raising
\* and issues no HTTP request.
C8_MissingCredentialNoNetwork ==
  (SearchCalled /\ sb_query \in {JStr("x"), JStr("y")} /\ (~environ.set \/ environ.val = "")) =>
    /\ sb.pc = "returned"
    /\ sb.result = <<>>
    /\ sb.trace = <<>>
    /\ sb.out = << Text("Error: Missing Brave Search API key.") >>

\* A non-empty query returned with the variable set to the empty string.
C8_Witness ==
  /\ sb.pc = "returned"
  /\ sb_query = JStr("x")
  /\ environ = [set |-> TRUE, val |-> ""]

\* The first two GETs failed and the third was answered 200 with a valid body.
C9_Scenario ==
  /\ Len(Gets) = 3
  /\ RequestFailed(Gets[1])
  /\ RequestFailed(Gets[2])
  /\ ~Gets[3].resp.neterr
  /\ Gets[3].resp.status = 200
  /\ Gets[3].resp.body \in {BodyFull, BodySparse}

\* C9: then search_brave returns the results parsed from the third response,
\* and sleeps exactly twice: 2 seconds between the first and the second GET,
\* 4 seconds between the second and the third.
C9_RetryRecovers ==
  C9_Scenario =>
    /\ sb.pc = "returned"
    /\ sb.result =
         (IF Gets[3].resp.body = BodyFull
            THEN << [title |-> JStr("t"), url |-> JStr("u"), description |-> JStr("d"),
                     extra_snippets |-> JArr(<< JStr("e") >>)] >>
            ELSE << [title |-> JStr(""), url |-> JStr(""), description |-> JStr(""),
                     extra_snippets |-> JArr(<<>>)] >>)
    /\ [i \in 1..Len(sb.trace) |-> << sb.trace[i].e, sb.trace[i].n >>]
         = << << "get", 1 >>, << "sleep", 2 >>, << "get", 2 >>, << "sleep", 4 >>,
              << "get", 3 >> >>

\* The third attempt returned a hit after two failures.
C9_Witness ==
  /\ C9_Scenario
  /\ sb.pc = "returned"
  /\ Len(sb.result) = 1
  /\ Gets[3].resp.body = BodyFull

\* C10: when all 3 GETs of a call fail, search_brave returns the empty
\* sequence; nothing is raised, and the result parsing, which would read a
\* results_json never bound, is not reached.
C10_AllAttemptsFail ==
  (Len(Gets) = 3 /\ \A i \in 1..3 : RequestFailed(Gets[i])) =>
    /\ sb.pc = "returned"
    /\ sb.result = <<>>
    /\ sb.exc = ""

\* Three failed GETs, then the return.
C10_Witness ==
  /\ Len(Gets) = 3
  /\ \A i \in 1..3 : RequestFailed(Gets[i])
  /\ sb.pc = "returned"
  /\ Len(Sleeps) = 2

\* C11: whatever the GETs of a call are answered (a network error, an error
\* status, a 2xx body that is not JSON, a 2xx body of JSON of an unexpected
\* shape), search_brave raises nothing: a call that has ended has returned a
\* sequence.
C11_SearchNeverRaises == sb.pc # "raised"

\* --------------------------------------------- claims on get_url_content
ContentCalled == gc.pc # "idle"
EmptyRecordWith(error) == [title |-> JStr(""), text |-> JStr(""), error |-> JStr(error)]

\* C12: for every status other than 200 get_url_content makes exactly one
\* POST, for its url, and returns the record with empty title and text and
\* error "Error: <status code>".
C12_Non200IsErrorRecord ==
  (ContentCalled /\ ~gc.resp.neterr /\ gc.resp.status # 200) =>
    /\ gc.pc = "returned"
    /\ gc.posts = << [url |-> gc_url, is_blog |-> TRUE] >>
    /\ gc.result =
         (CASE gc.resp.status = 201 -> EmptyRecordWith("Error: 201")
            [] gc.resp.status = 404 -> EmptyRecordWith("Error: 404")
            [] gc.resp.status = 500 -> EmptyRecordWith("Error: 500"))

\* A call answered 404 has returned.
C12_Witness ==
  /\ gc.pc = "returned"
  /\ gc.resp.status = 404
  /\ gc.result.error = JStr("Error: 404")

\* The messages a parsing error can carry.
ParseMessages ==
  { json_error_message, "missing 1 required positional argument: 'text'",
    "got an unexpected keyword argument 'lang'",
    "argument after ** must be a mapping, not list" }

\* C13: for every answer with status 200 whose body is not the structure
\* { title, text } (not JSON, JSON that is no object, a missing field, an
\* unexpected field) get_url_content raises nothing and returns the record
\* with empty title and text and an error that starts with
\* "Error parsing response: ".
C13_UnparsableBodyIsErrorRecord ==
  (ContentCalled /\ ~gc.resp.neterr /\ gc.resp.status = 200
     /\ gc.resp.body \in {BodyHtml, BodyList, BodyNoText, BodyExtraField}) =>
    /\ gc.pc = "returned"
    /\ gc.result.title = JStr("")
    /\ gc.result.text = JStr("")
    /\ gc.result.error \in { JStr("Error parsing response: " \o m) : m \in ParseMessages }

\* C14: a record get_url_content returns never has both an error and a
\* non-empty title or text.
C14_ErrorExcludesContent ==
  (gc.pc = "returned" /\ gc.result.error # JNull) =>
    (gc.result.title = JStr("") /\ gc.result.text = JStr(""))

\* ------------------------------------------ claims on the conversation
IsPrefix(a, b) == Len(a) <= Len(b) /\ SubSeq(b, 1, Len(a)) = a
AssistantPlaces(h) == { j \in 1..Len(h) : h[j].role = "assistant" }

\* The conversation exists and starts with the system prompt and the user
\* message holding the raw query; nothing after them is a system or user
\* message.
SeededConversation ==
  /\ Len(history) >= 2
  /\ SubSeq(history, 1, 2) = SeedExpected
  /\ \A j \in 3..Len(history) : history[j].role \in {"assistant", "tool"}

\* C15: once seeded the conversation starts, in every state, with exactly the
\* system prompt and the user message with the raw query, and no further
\* system or user message is in it; and every step leaves the conversation it
\* found as a prefix of the conversation it leaves (nothing is removed,
\* reordered or modified).
C15_AppendOnlySeeded ==
  /\ [](pc # "start" => SeededConversation)
  /\ [][IsPrefix(history, history')]_vars

\* A conversation that has grown to seed, reply, tool-result, reply.
C15_Witness ==
  /\ Len(history) = 5
  /\ history[4].role = "tool"
  /\ SeededConversation

\* C16: every model call was made with the registry of the Search Tool only
\* and with the whole conversation as it was: the messages passed at call c
\* are the conversation up to, and without, the c-th assistant message, which
\* is the reply appended right after them; so there are as many assistant
\* messages as model calls, and the reply is in the conversation while its
\* requests are executed and when the run has returned.
C16_FullConversationEachCall ==
  /\ Cardinality(AssistantPlaces(history)) = Len(ask_log)
  /\ \A c \in 1..Len(ask_log) :
       LET m == ask_log[c].messages IN
       /\ ask_log[c].tools = {"search_brave"}
       /\ IsPrefix(m, history)
       /\ Len(m) < Len(history)
       /\ history[Len(m) + 1].role = "assistant"
       /\ Cardinality(AssistantPlaces(m)) = c - 1
  /\ pc \in {"executing_tools", "error"} => history[LastReplyAt] = assistant_message
  /\ pc = "done" => history[Len(history)] = assistant_message
  /\ \A k \in 1..Len(search_log) :
       \E p \in RequestsOf(history) :
         history[p[1]].tool_calls[p[2]].id = search_log[k].id

\* The second call got the seed, the first reply and its tool-result.
C16_Witness ==
  /\ Len(ask_log) = 2
  /\ Len(ask_log[2].messages) = 4
  /\ ask_log[2].messages[4].role = "tool"
  /\ Len(search_log) = 1

AllRepliesAskForTools ==
  \A j \in AssistantPlaces(history) : history[j].tool_calls # <<>>

\* C17: while every reply carries a request the run has not returned; the
\* run has returned only when the last message is a reply without requests,
\* the first such reply; and the loop has no turn limit of its own: below
\* the bound of the model, a loop that awaits the model can call it.
C17_NoTurnLimit ==
  /\ AllRepliesAskForTools => pc # "done"
  /\ pc = "done" =>
       /\ history[Len(history)].role = "assistant"
       /\ history[Len(history)].tool_calls = <<>>
       /\ \A j \in AssistantPlaces(history) :
            j < Len(history) => history[j].tool_calls # <<>>
  /\ (pc = "awaiting_model" /\ Len(ask_log) < MaxTurns) => ENABLED AskLLM

\* The model is called a third time after two replies that asked for tools.
C17_Witness ==
  /\ Len(ask_log) = 3
  /\ Cardinality({ j \in AssistantPlaces(history) : history[j].tool_calls # <<>> }) = 2

\* ------------------------------------------------ claims on the retry loop
\* The attempt ended in the except clause: no answer, an error status, or,
\* where the library reports it as a RequestException, a body that is no JSON.
AttemptFailed(e) ==
  \/ e.resp.neterr
  \/ e.resp.status >= 400
  \/ (requests_version = "new" /\ e.resp.body = BodyHtml)

RECURSIVE SleepTotal(_)
SleepTotal(t) == IF t = <<>> THEN 0 ELSE Head(t).n + SleepTotal(Tail(t))

\* C19: in one call of search_brave there are at most 3 GETs; a GET that did
\* not fail is the last thing the call does on the network; every sleep comes
\* right after a failed GET and, once the call has ended, is followed by
\* another GET (so none follows the last failed attempt or a success); the
\* k-th sleep lasts 2^k seconds and the sleeps sum to at most 6 seconds.
C19_BoundedBackoff ==
  LET T == sb.trace IN
  /\ Len(Gets) <= 3
  /\ \A i \in 1..Len(T) :
       (T[i].e = "get" /\ ~AttemptFailed(T[i])) => i = Len(T)
  /\ \A i \in 1..Len(T) :
       T[i].e = "sleep" =>
         /\ i > 1 /\ T[i - 1].e = "get" /\ AttemptFailed(T[i - 1])
         /\ i < Len(T) => T[i + 1].e = "get"
         /\ sb.pc \in {"returned", "raised"} => i < Len(T)
  /\ \A k \in 1..Len(Sleeps) : Sleeps[k].n = 2 ^ k
  /\ SleepTotal(Sleeps) <= 6

\* A call whose three attempts all failed has ended: it slept 2 s and 4 s and
\* not after the third.
C19_Witness ==
  /\ sb.pc = "returned"
  /\ Len(Gets) = 3
  /\ \A i \in 1..3 : AttemptFailed(Gets[i])
  /\ Len(Sleeps) = 2
  /\ SleepTotal(Sleeps) = 6

\* ------------------------------------------------------ claims on termination
\* C18: with every model call and HTTP call returning, a reply without
\* requests leads to the return of process_user_query; every phase of tool
\* execution ends (by handing the conversation back to the model, or by the
\* exception that leaves the program), its request index staying within the
\* finite list of the reply; and a call of search_brave that entered its loop
\* ends after at most max_retries GETs.
C18_Terminates ==
  /\ (Replied /\ ~HasToolCalls(assistant_message)) ~> (pc = "done")
  /\ (pc = "executing_tools") ~> (pc \in {"awaiting_model", "error"})
  /\ [](pc = "executing_tools" => idx \in 1..Len(assistant_message.tool_calls))
  /\ (sb.pc = "loop") ~> (sb.pc \in {"returned", "raised"})
  /\ [](Len(Gets) <= max_retries)

\* The run has returned after a phase that executed two requests.
C18_Witness ==
  /\ pc = "done"
  /\ Len(ask_log) = 2
  /\ Len(ask_log[2].messages) = 5
  /\ ask_log[2].messages[5].role = "tool"

\* ------------------------------------------------ claims on two invocations
SeedOf(q) ==
  << [role |-> "system", content |-> first_llm_system_prompt, tool_calls |-> <<>>,
      tool_call_id |-> 0],
     [role |-> "user", content |-> q, tool_calls |-> <<>>, tool_call_id |-> 0] >>

\* The ids of the requests in the messages h, and of its tool-results.
RequestIds(h) == { h[p[1]].tool_calls[p[2]].id : p \in RequestsOf(h) }
ResultIds(h) == { h[j].tool_call_id : j \in { l \in 1..Len(h) : h[l].role = "tool" } }

\* The conversation of the frame f holds nothing but what f's own invocation
\* appended: its own seed, one reply for each of its model calls, and
\* tool-results, one at most for each, of requests in its own replies.
OwnConversation(f) ==
  \/ f.pc = "start" /\ f.history = <<>>
  \/ /\ f.pc # "start"
     /\ Len(f.history) >= 2
     /\ SubSeq(f.history, 1, 2) = SeedOf(f.query)
     /\ \A j \in 3..Len(f.history) : f.history[j].role \in {"assistant", "tool"}
     /\ Cardinality(AssistantPlaces(f.history)) = Len(f.ask_log)
     /\ ResultIds(f.history) \subseteq RequestIds(f.history)
     /\ Len(f.history) = 2 + Len(f.ask_log) + Cardinality(ResultIds(f.history))
     /\ (f.ask_log = <<>> => f.history = SeedOf(f.query))

\* C20: with two invocations, run one after the other or interleaved, each
\* conversation holds only what its own invocation appended and the requests
\* of the two are disjoint; an invocation that has not called the model yet
\* has exactly its two seed messages, whatever the other one did before; and
\* a step either swaps the two frames as they are or leaves the conversation
\* of the suspended invocation as it was.
C20_IndependentConversations ==
  /\ [](/\ OwnConversation(Running)
        /\ OwnConversation(other)
        /\ RequestIds(history) \cap RequestIds(other.history) = {}
        /\ ResultIds(history) \cap RequestIds(other.history) = {}
        /\ ResultIds(other.history) \cap RequestIds(history) = {})
  /\ [][\/ other'.history = other.history
        \/ (other'.history = history /\ history' = other.history)]_vars

\* The second invocation has just been seeded after the first one returned
\* from a conversation with a tool-result.
C20_Witness ==
  /\ other.pc = "done"
  /\ ResultIds(other.history) # {}
  /\ pc = "awaiting_model"
  /\ ask_log = <<>>
  /\ history = SeedOf(query)

====
